---- MODULE Spec2Model ----
(***************************************************************************)
(* A model of the Vector class of simple-vector.ts (src/unnamed/part_003,  *)
(* the current revision of src/Vector.ts) and of its helpers in            *)
(* src/src/utils.ts.                                                       *)
(*                                                                         *)
(* Numbers.  A JavaScript number is an IEEE-754 double.  The model keeps   *)
(* the structure of that format and shrinks its precision and range: the   *)
(* finite values are the integers -MaxNum..MaxNum, every operation rounds  *)
(* its exact result to the nearest finite value (ties to even), a result   *)
(* beyond MaxNum overflows to +Infinity or -Infinity, and NaN is produced  *)
(* and propagated as IEEE-754 does.  +0 and -0 are one value (the code     *)
(* only tells them apart in slope(), which is not modelled).               *)
(*                                                                         *)
(* Objects.  The heap holds the Vector objects of the program; a method    *)
(* call reads and writes the heap through object references, so a call     *)
(* whose argument is the receiver itself is modelled as the code runs it.  *)
(***************************************************************************)
EXTENDS Integers, Sequences, FiniteSets, TLC

VARIABLES heap, last

vars == <<heap, last>>

(***************************************************************************)
(* Bounds                                                                  *)
(***************************************************************************)
\* Largest finite number of the model's number format.
MaxNum == 4
\* Largest number of members of an array passed to fromArray.
MaxLen == 3
\* Denominator of the factors below 1 passed to limitX and limit when they are
\* called repeatedly: the factors are 0/FracDen .. (FracDen - 1)/FracDen.
FracDen == 4

(***************************************************************************)
(* The number format                                                       *)
(***************************************************************************)
PosInf == MaxNum + 1
NegInf == 0 - (MaxNum + 1)
NaN == MaxNum + 2

Finite == (0 - MaxNum)..MaxNum
Numbers == NegInf..NaN

\* Number.isFinite on a value of number type
IsFiniteNum(a) == a \in Finite

\* rounding of an exact integer result: overflow gives an infinity
Round(n) == IF n > MaxNum THEN PosInf ELSE IF n < 0 - MaxNum THEN NegInf ELSE n

\* exact quotient n / d (d > 0) rounded to the nearest integer, ties to even
RoundQuot(n, d) ==
    LET q == n \div d
        r == n % d
    IN  IF 2 * r < d THEN q
        ELSE IF 2 * r > d THEN q + 1
        ELSE IF q % 2 = 0 THEN q ELSE q + 1

Sign(a) == IF a < 0 THEN 0 - 1 ELSE 1
InfOfSign(s) == IF s < 0 THEN NegInf ELSE PosInf

\* unary minus
Neg(a) == IF a = NaN THEN NaN ELSE 0 - a

\* a + b
Add(a, b) ==
    IF a = NaN \/ b = NaN THEN NaN
    ELSE IF ~IsFiniteNum(a) THEN (IF ~IsFiniteNum(b) /\ b # a THEN NaN ELSE a)
    ELSE IF ~IsFiniteNum(b) THEN b
    ELSE Round(a + b)

\* a - b
Sub(a, b) == Add(a, Neg(b))

\* a * b
Mul(a, b) ==
    IF a = NaN \/ b = NaN THEN NaN
    ELSE IF ~IsFiniteNum(a) \/ ~IsFiniteNum(b)
         THEN (IF a = 0 \/ b = 0 THEN NaN ELSE InfOfSign(Sign(a) * Sign(b)))
    ELSE Round(a * b)

\* a / b
Div(a, b) ==
    IF a = NaN \/ b = NaN THEN NaN
    ELSE IF ~IsFiniteNum(a)
         THEN (IF ~IsFiniteNum(b) THEN NaN ELSE InfOfSign(Sign(a) * Sign(b)))
    ELSE IF ~IsFiniteNum(b) THEN 0
    ELSE IF b = 0 THEN (IF a = 0 THEN NaN ELSE InfOfSign(Sign(a)))
    ELSE IF b > 0 THEN Round(RoundQuot(a, b))
    ELSE Round(RoundQuot(0 - a, 0 - b))

\* a * (k / d) for a factor k / d with 0 <= k < d: the exact product rounded to
\* the nearest number of the format, ties to even
MulFrac(a, k, d) ==
    IF a = NaN THEN NaN
    ELSE IF ~IsFiniteNum(a) THEN (IF k = 0 THEN NaN ELSE a)
    ELSE IF a >= 0 THEN RoundQuot(a * k, d)
    ELSE 0 - RoundQuot((0 - a) * k, d)

\* the comparisons of JavaScript: every comparison with NaN is false
Lt(a, b) == a # NaN /\ b # NaN /\ a < b
Gt(a, b) == Lt(b, a)
Le(a, b) == a # NaN /\ b # NaN /\ a <= b
\* a === b on two values of number type
StrictEq(a, b) == a # NaN /\ b # NaN /\ a = b

\* Math.min, Math.max, Math.abs, Math.sqrt
MathMin(a, b) == IF a = NaN \/ b = NaN THEN NaN ELSE IF a < b THEN a ELSE b
MathMax(a, b) == IF a = NaN \/ b = NaN THEN NaN ELSE IF a > b THEN a ELSE b
MathAbs(a) == IF a = NaN THEN NaN ELSE IF a < 0 THEN 0 - a ELSE a
MathSqrt(a) ==
    IF a = NaN \/ a < 0 THEN NaN
    ELSE IF a = PosInf THEN PosInf
    ELSE CHOOSE s \in 0..MaxNum :
            /\ (s = 0 \/ (2 * s - 1) * (2 * s - 1) <= 4 * a)
            /\ 4 * a < (2 * s + 1) * (2 * s + 1)


\* Math.cos and Math.sin of an angle in radians, rounded to the format: the
\* cosine rounds to 1 within pi/3 of a multiple of 2 pi, to -1 within pi/3 of
\* an odd multiple of pi, and to 0 elsewhere (pi is taken as 355/113).
MathCos(a) ==
    IF ~IsFiniteNum(a) THEN NaN
    ELSE LET t == (a * 339) % 2130
         IN  IF t < 355 \/ t > 1775 THEN 1
             ELSE IF t > 710 /\ t < 1420 THEN 0 - 1
             ELSE 0
MathSin(a) ==
    IF ~IsFiniteNum(a) THEN NaN
    ELSE LET t == (a * 678) % 4260
         IN  IF t > 355 /\ t < 1775 THEN 1
             ELSE IF t > 2485 /\ t < 3905 THEN 0 - 1
             ELSE 0

\* Math.acos rounded to the format: acos(1) = 0, acos(0) = pi/2 -> 2,
\* acos(-1) = pi -> 3
MathAcos(c) ==
    IF c = 1 THEN 0
    ELSE IF c = 0 THEN Round(2)
    ELSE IF c = 0 - 1 THEN Round(3)
    ELSE NaN

\* Math.atan2 rounded to the format.  An infinite argument dominates a finite
\* one; two infinite arguments give the diagonal.
Atan2Abs(ay, ax, xneg) ==
    IF ay = 0 /\ ax = 0 THEN 0
    ELSE IF ay = 0 THEN (IF xneg THEN Round(3) ELSE 0)
    ELSE IF ax = 0 THEN Round(2)
    ELSE IF ~xneg
         THEN (IF ay * 1000000 < 546302 * ax THEN 0
               ELSE IF ay * 10000 < 141014 * ax THEN 1
               ELSE Round(2))
    ELSE (IF ay * 100000 <= 74702 * ax THEN Round(3) ELSE Round(2))
MathAtan2(y, x) ==
    IF y = NaN \/ x = NaN THEN NaN
    ELSE LET ay == IF IsFiniteNum(y) THEN (IF IsFiniteNum(x) THEN MathAbs(y) ELSE 0)
                   ELSE 1
             ax == IF IsFiniteNum(x) THEN (IF IsFiniteNum(y) THEN MathAbs(x) ELSE 0)
                   ELSE 1
             m  == Atan2Abs(ay, ax, x < 0)
         IN  IF y < 0 THEN Neg(m) ELSE m

(***************************************************************************)
(* JavaScript values passed as arguments                                   *)
(***************************************************************************)
\* t is the kind of the value; n is the number, or the object's identity
JSNum(a) == [t |-> "number", n |-> a]
Ref(o) == [t |-> "object", n |-> o]
Undefined == [t |-> "undefined", n |-> 0]
Null == [t |-> "null", n |-> 0]
\* a string is kept as the number it converts to: '1' as 1, 'foo' as NaN
StringOf(a) == [t |-> "string", n |-> a]
JSString == StringOf(NaN)
JSBool(b) == [t |-> "boolean", n |-> IF b THEN 1 ELSE 0]
\* an array literal, and an object literal with the properties x and y
ArrayOf(items) == [t |-> "array", items |-> items]
ObjectOf(x, y) == [t |-> "literal", x |-> x, y |-> y]

\* the typeof operator
TypeOf(val) == IF val.t \in {"null", "array", "literal"} THEN "object" ELSE val.t

\* ToNumber, as applied by the arithmetic and relational operators
ToNumber(val) ==
    IF val.t \in {"number", "string"} THEN val.n
    ELSE IF val.t = "null" THEN 0
    ELSE NaN

\* a number k / FracDen between two numbers of the format, and the product of
\* a number with a factor that is such a fraction or any other value
Fraction(k) == [t |-> "number", n |-> k, den |-> FracDen]
Times(a, factor) ==
    IF "den" \in DOMAIN factor THEN MulFrac(a, factor.n, factor.den)
    ELSE Mul(a, ToNumber(factor))

\* the global isFinite, which converts its argument to a number first
IsFiniteCoercing(val) == IsFiniteNum(ToNumber(val))
\* Number.isFinite: no conversion, a value that is not of number type is not
\* finite
NumberIsFinite(val) == val.t = "number" /\ IsFiniteNum(val.n)

(***************************************************************************)
(* The heap of Vector objects and the outcome of a call                    *)
(***************************************************************************)
Objs == {1, 2}
\* the object a method allocates for itself (clone() inside reflect)
Tmp == 0

Vec(a, b) == [x |-> a, y |-> b]

NoError == "none"
Errors == {"DivisionByZeroError", "InvalidNumberError", "TypeError", "RangeError"}

\* a call that returned `val`, and a call that threw `e`, leaving the heap h
Return(h, val) == [h |-> h, err |-> NoError, ret |-> val]
ReturnThis(h, this) == Return(h, Ref(this))
Throw(h, e) == [h |-> h, err |-> e, ret |-> Undefined]

\* sequencing: the rest of a method body runs unless a statement threw
AndThen(res, Rest(_)) == IF res.err # NoError THEN res ELSE Rest(res.h)

SetX(h, o, a) == [h EXCEPT ![o].x = a]
SetY(h, o, a) == [h EXCEPT ![o].y = a]


(***************************************************************************)
(* src/utils.ts                                                            *)
(***************************************************************************)
\* a validateNumber that tests the type alone, letting NaN and the infinities
\* through
ValidNumberTypeOnly(val) == val.t = "number"

\* validateNumber(val) throws unless val is a finite value of number type
ValidNumber(val) == val.t = "number" /\ IsFiniteNum(val.n)

\* getClampedValue(current, minBound, maxBound): the three validateNumber
\* calls, then Math.min(Math.max(current, minBound), maxBound)
GetClampedValueThrows(current, minBound, maxBound) ==
    ~IsFiniteNum(current) \/ ~IsFiniteNum(minBound) \/ ~IsFiniteNum(maxBound)
\* a getClampedValue that applies the upper bound alone
GetClampedValueNoLower(current, minBound, maxBound) == MathMin(current, maxBound)
\* a getClampedValue that moves the value one unit towards the range
GetClampedValueStepwise(current, minBound, maxBound) ==
    IF Gt(current, maxBound) THEN Sub(current, 1)
    ELSE IF Lt(current, minBound) THEN Add(current, 1)
    ELSE current
GetClampedValue(current, minBound, maxBound) ==
    MathMin(MathMax(current, minBound), maxBound)

\* isVector(obj): every object of the heap is a Vector with numeric x and y
IsVector(val) == val.t = "object"

\* random(min, max) = Math.random() * (max - min) + min.  Math.random() is a
\* draw from [0, 1): the draws 0, 1/2 and the largest value below 1 (whose
\* product with max - min rounds to max - min) stand for it.
RandomDraws == {"zero", "half", "top"}
Random(min, max, draw) ==
    LET d == Sub(max, min)
        scaled == IF draw = "zero" THEN Mul(0, d)
                  ELSE IF draw = "half" THEN Div(d, 2)
                  ELSE d
    IN  Add(scaled, min)

\* degrees2radian(deg) = deg / (180 / pi), rounded to the format
Degrees2Radian(deg) ==
    IF ~IsFiniteNum(deg) THEN deg
    ELSE IF deg >= 0 THEN Round(RoundQuot(deg * 355, 113 * 180))
    ELSE Round(0 - RoundQuot((0 - deg) * 355, 113 * 180))

(***************************************************************************)
(* Vector: arithmetic                                                      *)
(***************************************************************************)
AddX(h, this, vec) == ReturnThis(SetX(h, this, Add(h[this].x, h[vec].x)), this)
AddY(h, this, vec) == ReturnThis(SetY(h, this, Add(h[this].y, h[vec].y)), this)
AddVec(h, this, vec) ==
    LET h1 == SetX(h, this, Add(h[this].x, h[vec].x))
        h2 == SetY(h1, this, Add(h1[this].y, h1[vec].y))
    IN  ReturnThis(h2, this)
AddScalar(h, this, scalar) ==
    LET h1 == SetX(h, this, Add(h[this].x, scalar))
        h2 == SetY(h1, this, Add(h1[this].y, scalar))
    IN  ReturnThis(h2, this)
AddScalarX(h, this, scalar) == ReturnThis(SetX(h, this, Add(h[this].x, scalar)), this)
AddScalarY(h, this, scalar) == ReturnThis(SetY(h, this, Add(h[this].y, scalar)), this)

SubtractX(h, this, vec) == ReturnThis(SetX(h, this, Sub(h[this].x, h[vec].x)), this)
SubtractY(h, this, vec) == ReturnThis(SetY(h, this, Sub(h[this].y, h[vec].y)), this)
Subtract(h, this, vec) ==
    LET h1 == SetX(h, this, Sub(h[this].x, h[vec].x))
        h2 == SetY(h1, this, Sub(h1[this].y, h1[vec].y))
    IN  ReturnThis(h2, this)
SubtractScalar(h, this, scalar) ==
    LET h1 == SetX(h, this, Sub(h[this].x, scalar))
        h2 == SetY(h1, this, Sub(h1[this].y, scalar))
    IN  ReturnThis(h2, this)
SubtractScalarX(h, this, scalar) == ReturnThis(SetX(h, this, Sub(h[this].x, scalar)), this)
SubtractScalarY(h, this, scalar) == ReturnThis(SetY(h, this, Sub(h[this].y, scalar)), this)

DivideX(h, this, vec) ==
    IF StrictEq(h[vec].x, 0) THEN Throw(h, "DivisionByZeroError")
    ELSE ReturnThis(SetX(h, this, Div(h[this].x, h[vec].x)), this)
DivideY(h, this, vec) ==
    IF StrictEq(h[vec].y, 0) THEN Throw(h, "DivisionByZeroError")
    ELSE ReturnThis(SetY(h, this, Div(h[this].y, h[vec].y)), this)
\* a divide that guards the x axis of the divisor alone
DivideChecksXOnly(h, this, vec) ==
    IF StrictEq(h[vec].x, 0) THEN Throw(h, "DivisionByZeroError")
    ELSE LET h1 == SetX(h, this, Div(h[this].x, h[vec].x))
             h2 == SetY(h1, this, Div(h1[this].y, h1[vec].y))
         IN  ReturnThis(h2, this)
Divide(h, this, vec) ==
    IF StrictEq(h[vec].x, 0) \/ StrictEq(h[vec].y, 0) THEN Throw(h, "DivisionByZeroError")
    ELSE LET h1 == SetX(h, this, Div(h[this].x, h[vec].x))
             h2 == SetY(h1, this, Div(h1[this].y, h1[vec].y))
         IN  ReturnThis(h2, this)
\* a divideScalar without its guard
DivideScalarUnchecked(h, this, scalar) ==
    LET h1 == SetX(h, this, Div(h[this].x, scalar))
        h2 == SetY(h1, this, Div(h1[this].y, scalar))
    IN  ReturnThis(h2, this)
DivideScalar(h, this, scalar) ==
    IF StrictEq(scalar, 0) THEN Throw(h, "DivisionByZeroError")
    ELSE LET h1 == SetX(h, this, Div(h[this].x, scalar))
             h2 == SetY(h1, this, Div(h1[this].y, scalar))
         IN  ReturnThis(h2, this)
DivideScalarX(h, this, scalar) ==
    IF StrictEq(scalar, 0) THEN Throw(h, "DivisionByZeroError")
    ELSE ReturnThis(SetX(h, this, Div(h[this].x, scalar)), this)
DivideScalarY(h, this, scalar) ==
    IF StrictEq(scalar, 0) THEN Throw(h, "DivisionByZeroError")
    ELSE ReturnThis(SetY(h, this, Div(h[this].y, scalar)), this)

MultiplyX(h, this, vec) == ReturnThis(SetX(h, this, Mul(h[this].x, h[vec].x)), this)
MultiplyY(h, this, vec) == ReturnThis(SetY(h, this, Mul(h[this].y, h[vec].y)), this)
Multiply(h, this, vec) ==
    LET h1 == SetX(h, this, Mul(h[this].x, h[vec].x))
        h2 == SetY(h1, this, Mul(h1[this].y, h1[vec].y))
    IN  ReturnThis(h2, this)
MultiplyScalar(h, this, scalar) ==
    LET h1 == SetX(h, this, Mul(h[this].x, scalar))
        h2 == SetY(h1, this, Mul(h1[this].y, scalar))
    IN  ReturnThis(h2, this)
MultiplyScalarX(h, this, scalar) == ReturnThis(SetX(h, this, Mul(h[this].x, scalar)), this)
MultiplyScalarY(h, this, scalar) == ReturnThis(SetY(h, this, Mul(h[this].y, scalar)), this)

InvertX(h, this) == ReturnThis(SetX(h, this, Mul(h[this].x, 0 - 1)), this)
InvertY(h, this) == ReturnThis(SetY(h, this, Mul(h[this].y, 0 - 1)), this)
Invert(h, this) ==
    LET h1 == SetX(h, this, Mul(h[this].x, 0 - 1))
        h2 == SetY(h1, this, Mul(h1[this].y, 0 - 1))
    IN  ReturnThis(h2, this)

(***************************************************************************)
(* Vector: products, magnitude, predicates                                 *)
(***************************************************************************)
DotValue(h, this, vec) == Add(Mul(h[this].x, h[vec].x), Mul(h[this].y, h[vec].y))
CrossValue(h, this, vec) == Sub(Mul(h[this].x, h[vec].y), Mul(h[this].y, h[vec].x))
MagSq(h, this) == Add(Mul(h[this].x, h[this].x), Mul(h[this].y, h[this].y))
Mag(h, this) == MathSqrt(MagSq(h, this))
IsZero(h, this) == StrictEq(h[this].x, 0) /\ StrictEq(h[this].y, 0)

Dot(h, this, vec) == Return(h, JSNum(DotValue(h, this, vec)))
Cross(h, this, vec) == Return(h, JSNum(CrossValue(h, this, vec)))
DistanceSqValue(h, this, vec) ==
    LET dx == Sub(h[this].x, h[vec].x)
        dy == Sub(h[this].y, h[vec].y)
    IN  Add(Mul(dx, dx), Mul(dy, dy))
Distance(h, this, vec) == Return(h, JSNum(MathSqrt(DistanceSqValue(h, this, vec))))

\* angleWith(vec)
\* an angle computed without the test for zero vectors
AngleWithValueUnguarded(h, this, vec) ==
    LET cosTheta == Div(DotValue(h, this, vec), Mul(Mag(h, this), Mag(h, vec)))
        fixedCosTheta == MathMax(0 - 1, MathMin(1, cosTheta))
    IN  MathAcos(fixedCosTheta)
AngleWithValue(h, this, vec) ==
    IF IsZero(h, this) \/ IsZero(h, vec) THEN 0
    ELSE LET cosTheta == Div(DotValue(h, this, vec), Mul(Mag(h, this), Mag(h, vec)))
             fixedCosTheta == MathMax(0 - 1, MathMin(1, cosTheta))
         IN  MathAcos(fixedCosTheta)
AngleWith(h, this, vec) == Return(h, JSNum(AngleWithValue(h, this, vec)))

(***************************************************************************)
(* Vector: construction and copies                                         *)
(***************************************************************************)
\* new Vector(x, y) stored as object o
NewVector(h, o, a, b) ==
    IF ~IsFiniteNum(a) \/ ~IsFiniteNum(b) THEN Throw(h, "TypeError")
    ELSE Return((o :> Vec(a, b)) @@ h, Ref(o))

\* clone(): a new object o with the components of this
Clone(h, this, o) == NewVector(h, o, h[this].x, h[this].y)

\* a constructor that stores its arguments without looking at them
ConstructorUnchecked(h, x, y) ==
    Return((Tmp :> Vec(ToNumber(x), ToNumber(y))) @@ h, Ref(Tmp))
\* new Vector(x, y) as the caller writes it: a parameter left out takes its
\* default 0, Number.isFinite rejects what is not a finite number, and the
\* new object is Tmp until the caller keeps or drops it
Constructor(h, x, y) ==
    LET x1 == IF x.t = "undefined" THEN JSNum(0) ELSE x
        y1 == IF y.t = "undefined" THEN JSNum(0) ELSE y
    IN  IF ~NumberIsFinite(x1) THEN Throw(h, "TypeError")
        ELSE IF ~NumberIsFinite(y1) THEN Throw(h, "TypeError")
        ELSE NewVector(h, Tmp, x1.n, y1.n)

\* arr[i]: undefined beyond the length of the array
Item(arr, i) == IF i <= Len(arr.items) THEN arr.items[i] ELSE Undefined

FromArray(h, arr) ==
    IF Len(arr.items) < 2 THEN Throw(h, "TypeError")
    ELSE IF ~NumberIsFinite(Item(arr, 1)) \/ ~NumberIsFinite(Item(arr, 2))
    THEN Throw(h, "TypeError")
    ELSE Constructor(h, Item(arr, 1), Item(arr, 2))

\* a fromObject that converts the two properties to numbers before it looks
\* at them
FromObjectParsing(h, obj) ==
    IF ~IsFiniteNum(ToNumber(obj.x)) THEN Throw(h, "TypeError")
    ELSE IF ~IsFiniteNum(ToNumber(obj.y)) THEN Throw(h, "TypeError")
    ELSE Constructor(h, JSNum(ToNumber(obj.x)), JSNum(ToNumber(obj.y)))
FromObject(h, obj) ==
    IF ~NumberIsFinite(obj.x) THEN Throw(h, "TypeError")
    ELSE IF ~NumberIsFinite(obj.y) THEN Throw(h, "TypeError")
    ELSE Constructor(h, obj.x, obj.y)

\* a toObject that puts y under x and x under y
ToObjectSwapped(h, this) == Return(h, ObjectOf(JSNum(h[this].y), JSNum(h[this].x)))
ToObject(h, this) == Return(h, ObjectOf(JSNum(h[this].x), JSNum(h[this].y)))

IsEqualToValue(h, this, vec) ==
    StrictEq(h[this].x, h[vec].x) /\ StrictEq(h[this].y, h[vec].y)
IsEqualTo(h, this, vec) == Return(h, JSBool(IsEqualToValue(h, this, vec)))

\* a copyX that copies y as well
CopyXCopiesBoth(h, this, vec) ==
    ReturnThis(SetY(SetX(h, this, h[vec].x), this, h[vec].y), this)
CopyX(h, this, vec) == ReturnThis(SetX(h, this, h[vec].x), this)
CopyY(h, this, vec) == ReturnThis(SetY(h, this, h[vec].y), this)
Copy(h, this, vec) ==
    LET h1 == SetX(h, this, h[vec].x)
        h2 == SetY(h1, this, h1[vec].y)
    IN  ReturnThis(h2, this)

Zero(h, this) == ReturnThis(SetY(SetX(h, this, 0), this, 0), this)

(***************************************************************************)
(* Vector: normalize, resize, reflect, projectOnto                         *)
(***************************************************************************)
Normalize(h, this) == DivideScalar(h, this, Mag(h, this))

Resize(h, this, magnitude) ==
    IF magnitude.t = "undefined" \/ magnitude.t = "null" THEN Throw(h, "TypeError")
    ELSE AndThen(Normalize(h, this),
                 LAMBDA h1 : MultiplyScalar(h1, this, ToNumber(magnitude)))

\* the objects of the caller: what a method allocated for itself is dropped
Collect(res) == [res EXCEPT !.h = [o \in Objs |-> res.h[o]]]

\* a reflect that normalizes and scales the surface normal itself instead of
\* a clone of it
ReflectInPlace(h, this, surfaceNormal) ==
    AndThen(Normalize(h, surfaceNormal), LAMBDA h2 :
    AndThen(MultiplyScalar(h2, surfaceNormal,
                           Mul(2, DotValue(h2, this, surfaceNormal))), LAMBDA h3 :
            Subtract(h3, this, surfaceNormal)))

Reflect(h, this, surfaceNormal) ==
    Collect(
      AndThen(Clone(h, surfaceNormal, Tmp), LAMBDA h1 :
      AndThen(Normalize(h1, Tmp), LAMBDA h2 :
      AndThen(MultiplyScalar(h2, Tmp, Mul(2, DotValue(h2, this, Tmp))), LAMBDA h3 :
              Subtract(h3, this, Tmp)))))

ProjectOnto(h, this, vec) ==
    IF IsZero(h, vec) THEN Throw(h, "DivisionByZeroError")
    ELSE LET coeff == Div(Add(Mul(h[this].x, h[vec].x), Mul(h[this].y, h[vec].y)),
                          Add(Mul(h[vec].x, h[vec].x), Mul(h[vec].y, h[vec].y)))
             h1 == SetX(h, this, Mul(coeff, h[vec].x))
             h2 == SetY(h1, this, Mul(coeff, h1[vec].y))
         IN  ReturnThis(h2, this)


(***************************************************************************)
(* Vector: clamp and limit                                                 *)
(***************************************************************************)
\* typeof max !== typeof min, the test of the kinds of the two bounds
SameTypeAlways(max, min) == TRUE
SameType(max, min) == TypeOf(max) = TypeOf(min)

\* _min = Math.min(a, b) and _max = Math.max(a, b), the sorting of the bounds
UnsortedBounds(a, b) == [lo |-> b, hi |-> a]
SortBounds(a, b) == [lo |-> MathMin(a, b), hi |-> MathMax(a, b)]

\* a clampX that rejects a second bound larger than the first instead of
\* sorting the two
ClampXRejectsUnordered(h, this, max, min) ==
    IF ~IsVector(max) /\ ~ValidNumber(max) THEN Throw(h, "InvalidNumberError")
    ELSE LET a == IF IsVector(max) THEN h[max.n].x ELSE max.n
         IN  IF min.t = "undefined"
             THEN ReturnThis(SetX(h, this, MathMin(h[this].x, a)), this)
             ELSE IF ~SameType(max, min) THEN Throw(h, "TypeError")
             ELSE IF ~IsVector(min) /\ ~ValidNumber(min) THEN Throw(h, "InvalidNumberError")
             ELSE LET b == IF IsVector(min) THEN h[min.n].x ELSE min.n
                  IN  IF Gt(b, a) THEN Throw(h, "RangeError")
                      ELSE IF GetClampedValueThrows(h[this].x, b, a)
                      THEN Throw(h, "InvalidNumberError")
                      ELSE ReturnThis(SetX(h, this, GetClampedValue(h[this].x, b, a)), this)

\* clampX(max, min): the statements of the method in order
ClampX(h, this, max, min) ==
    IF ~IsVector(max) /\ ~ValidNumber(max) THEN Throw(h, "InvalidNumberError")
    ELSE LET a == IF IsVector(max) THEN h[max.n].x ELSE max.n
         IN  IF min.t = "undefined"
             THEN ReturnThis(SetX(h, this, MathMin(h[this].x, a)), this)
             ELSE IF ~SameType(max, min) THEN Throw(h, "TypeError")
             ELSE IF ~IsVector(min) /\ ~ValidNumber(min) THEN Throw(h, "InvalidNumberError")
             ELSE LET b == IF IsVector(min) THEN h[min.n].x ELSE min.n
                      lo == SortBounds(a, b).lo
                      hi == SortBounds(a, b).hi
                  IN  IF GetClampedValueThrows(h[this].x, lo, hi)
                      THEN Throw(h, "InvalidNumberError")
                      ELSE ReturnThis(SetX(h, this, GetClampedValue(h[this].x, lo, hi)), this)

ClampY(h, this, max, min) ==
    IF ~IsVector(max) /\ ~ValidNumber(max) THEN Throw(h, "InvalidNumberError")
    ELSE LET a == IF IsVector(max) THEN h[max.n].y ELSE max.n
         IN  IF min.t = "undefined"
             THEN ReturnThis(SetY(h, this, MathMin(h[this].y, a)), this)
             ELSE IF ~SameType(max, min) THEN Throw(h, "TypeError")
             ELSE IF ~IsVector(min) /\ ~ValidNumber(min) THEN Throw(h, "InvalidNumberError")
             ELSE LET b == IF IsVector(min) THEN h[min.n].y ELSE min.n
                      lo == SortBounds(a, b).lo
                      hi == SortBounds(a, b).hi
                  IN  IF GetClampedValueThrows(h[this].y, lo, hi)
                      THEN Throw(h, "InvalidNumberError")
                      ELSE ReturnThis(SetY(h, this, GetClampedValue(h[this].y, lo, hi)), this)

\* clampAxes(max, min) = this.clampX(max, min).clampY(max, min)
ClampAxes(h, this, max, min) ==
    AndThen(ClampX(h, this, max, min), LAMBDA h1 : ClampY(h1, this, max, min))

\* a clampMag whose one-bound form resizes to the bound whatever the magnitude
ClampMagAlwaysResizes(h, this, max, min) ==
    LET currentMag == Mag(h, this)
    IN  IF ~IsVector(max) /\ ~ValidNumber(max) THEN Throw(h, "InvalidNumberError")
        ELSE LET a == IF IsVector(max) THEN Mag(h, max.n) ELSE max.n
             IN  IF Lt(a, 0) THEN Throw(h, "RangeError")
                 ELSE IF min.t = "undefined"
                 THEN Resize(h, this, JSNum(a))
                 ELSE IF ~SameType(max, min) THEN Throw(h, "TypeError")
                 ELSE IF ~IsVector(min) /\ ~ValidNumber(min)
                 THEN Throw(h, "InvalidNumberError")
                 ELSE LET b == IF IsVector(min) THEN Mag(h, min.n) ELSE min.n
                      IN  IF Lt(b, 0) THEN Throw(h, "RangeError")
                          ELSE LET minMag == SortBounds(a, b).lo
                                   maxMag == SortBounds(a, b).hi
                               IN  IF GetClampedValueThrows(currentMag, minMag, maxMag)
                                   THEN Throw(h, "InvalidNumberError")
                                   ELSE LET clampedMag ==
                                              GetClampedValue(currentMag, minMag, maxMag)
                                        IN  IF ~StrictEq(currentMag, clampedMag)
                                            THEN Resize(h, this, JSNum(clampedMag))
                                            ELSE ReturnThis(h, this)
ClampMag(h, this, max, min) ==
    LET currentMag == Mag(h, this)
    IN  IF ~IsVector(max) /\ ~ValidNumber(max) THEN Throw(h, "InvalidNumberError")
        ELSE LET a == IF IsVector(max) THEN Mag(h, max.n) ELSE max.n
             IN  IF Lt(a, 0) THEN Throw(h, "RangeError")
                 ELSE IF min.t = "undefined"
                 THEN (IF Gt(currentMag, a) THEN Resize(h, this, JSNum(a))
                       ELSE ReturnThis(h, this))
                 ELSE IF ~SameType(max, min) THEN Throw(h, "TypeError")
                 ELSE IF ~IsVector(min) /\ ~ValidNumber(min)
                 THEN Throw(h, "InvalidNumberError")
                 ELSE LET b == IF IsVector(min) THEN Mag(h, min.n) ELSE min.n
                      IN  IF Lt(b, 0) THEN Throw(h, "RangeError")
                          ELSE LET minMag == SortBounds(a, b).lo
                                   maxMag == SortBounds(a, b).hi
                               IN  IF GetClampedValueThrows(currentMag, minMag, maxMag)
                                   THEN Throw(h, "InvalidNumberError")
                                   ELSE LET clampedMag ==
                                              GetClampedValue(currentMag, minMag, maxMag)
                                        IN  IF ~StrictEq(currentMag, clampedMag)
                                            THEN Resize(h, this, JSNum(clampedMag))
                                            ELSE ReturnThis(h, this)

\* a limitX whose path below the threshold returns nothing
LimitXReturnsNothing(h, this, max, factor) ==
    IF Gt(MathAbs(h[this].x), ToNumber(max))
    THEN ReturnThis(SetX(h, this, Mul(h[this].x, ToNumber(factor))), this)
    ELSE Return(h, Undefined)
\* a limitX that compares x itself, not its absolute value, with max
LimitXSigned(h, this, max, factor) ==
    IF Gt(h[this].x, ToNumber(max))
    THEN ReturnThis(SetX(h, this, Times(h[this].x, factor)), this)
    ELSE ReturnThis(h, this)
LimitX(h, this, max, factor) ==
    IF Gt(MathAbs(h[this].x), ToNumber(max))
    THEN ReturnThis(SetX(h, this, Times(h[this].x, factor)), this)
    ELSE ReturnThis(h, this)
LimitY(h, this, max, factor) ==
    IF Gt(MathAbs(h[this].y), ToNumber(max))
    THEN ReturnThis(SetY(h, this, Times(h[this].y, factor)), this)
    ELSE ReturnThis(h, this)
\* a limit that shrinks both axes when x is beyond max
LimitBothOnX(h, this, max, factor) ==
    IF Gt(MathAbs(h[this].x), ToNumber(max))
    THEN ReturnThis(SetY(SetX(h, this, Mul(h[this].x, ToNumber(factor))), this,
                         Mul(h[this].y, ToNumber(factor))), this)
    ELSE ReturnThis(h, this)
Limit(h, this, max, factor) ==
    AndThen(LimitX(h, this, max, factor), LAMBDA h1 : LimitY(h1, this, max, factor))

(***************************************************************************)
(* Vector: randomization                                                   *)
(***************************************************************************)
RandomizeX(h, this, topLeft, bottomRight, draw) ==
    LET min == MathMin(h[topLeft].x, h[bottomRight].x)
        max == MathMax(h[topLeft].x, h[bottomRight].x)
    IN  ReturnThis(SetX(h, this, Random(min, max, draw)), this)
RandomizeY(h, this, topLeft, bottomRight, draw) ==
    LET min == MathMin(h[topLeft].y, h[bottomRight].y)
        max == MathMax(h[topLeft].y, h[bottomRight].y)
    IN  ReturnThis(SetY(h, this, Random(min, max, draw)), this)
Randomize(h, this, topLeft, bottomRight, drawX, drawY) ==
    AndThen(RandomizeX(h, this, topLeft, bottomRight, drawX),
            LAMBDA h1 : RandomizeY(h1, this, topLeft, bottomRight, drawY))
\* `coin` is the draw compared with 0.5, `draw` the one random() makes
RandomizeAny(h, this, topLeft, bottomRight, coin, draw) ==
    IF coin = "zero"
    THEN RandomizeX(h, this, topLeft, bottomRight, draw)
    ELSE RandomizeY(h, this, topLeft, bottomRight, draw)

(***************************************************************************)
(* Vector: rounding                                                        *)
(***************************************************************************)
\* Math.round leaves every value of the format as it is
MathRound(a) == a
Unfloat(h, this) ==
    LET h1 == SetX(h, this, MathRound(h[this].x))
        h2 == SetY(h1, this, MathRound(h1[this].y))
    IN  ReturnThis(h2, this)

\* Number(a.toFixed(precision)): toFixed throws a RangeError unless
\* 0 <= precision <= 100 (NaN counts as 0; the finite values of the format
\* are all below 100); every value of the format has no fractional digits to
\* round
ToFixedThrows(precision) ==
    precision # NaN /\ (precision < 0 \/ ~IsFiniteNum(precision))
FixPrecision(h, this, precision) ==
    IF ToFixedThrows(precision) THEN Throw(h, "RangeError")
    ELSE ReturnThis(h, this)

(***************************************************************************)
(* Vector: interpolation                                                   *)
(***************************************************************************)
\* (1 - mixFactor) * a + mixFactor * b; the default mixFactor 0.5 halves both
MixValue(a, b, mixFactor) ==
    IF mixFactor.t = "undefined" THEN Add(Div(a, 2), Div(b, 2))
    ELSE Add(Mul(Sub(1, ToNumber(mixFactor)), a), Mul(ToNumber(mixFactor), b))
MixFactorOutOfRange(mixFactor) ==
    /\ mixFactor.t # "undefined"
    /\ (Lt(ToNumber(mixFactor), 0) \/ Gt(ToNumber(mixFactor), 1))
MixX(h, this, vec, mixFactor) ==
    IF MixFactorOutOfRange(mixFactor) THEN Throw(h, "RangeError")
    ELSE ReturnThis(SetX(h, this, MixValue(h[this].x, h[vec].x, mixFactor)), this)
MixY(h, this, vec, mixFactor) ==
    IF MixFactorOutOfRange(mixFactor) THEN Throw(h, "RangeError")
    ELSE ReturnThis(SetY(h, this, MixValue(h[this].y, h[vec].y, mixFactor)), this)
Mix(h, this, vec, mixFactor) ==
    IF MixFactorOutOfRange(mixFactor) THEN Throw(h, "RangeError")
    ELSE AndThen(MixX(h, this, vec, mixFactor), LAMBDA h1 : MixY(h1, this, vec, mixFactor))

(***************************************************************************)
(* Vector: rotation                                                        *)
(***************************************************************************)
HorizontalAngle(h, this) == MathAtan2(h[this].y, h[this].x)

RotateBy(h, this, angle) ==
    LET nx == Sub(Mul(h[this].x, MathCos(angle)), Mul(h[this].y, MathSin(angle)))
        ny == Add(Mul(h[this].x, MathSin(angle)), Mul(h[this].y, MathCos(angle)))
        h1 == SetX(h, this, nx)
        h2 == SetY(h1, this, ny)
    IN  ReturnThis(h2, this)
RotateByDeg(h, this, angle) == RotateBy(h, this, Degrees2Radian(angle))

\* a rotateTowards that rejects a negative max angle only
RotateTowardsAllowsZero(h, this, vec, maxAngle) ==
    IF Lt(maxAngle, 0) THEN Throw(h, "RangeError")
    ELSE LET angle == AngleWithValue(h, this, vec)
             clamped == MathMin(angle, maxAngle)
             delta == IF Lt(CrossValue(h, this, vec), 0) THEN Neg(clamped) ELSE clamped
         IN  RotateBy(h, this, delta)
RotateTowards(h, this, vec, maxAngle) ==
    IF Le(maxAngle, 0) THEN Throw(h, "RangeError")
    ELSE LET angle == AngleWithValue(h, this, vec)
             clamped == MathMin(angle, maxAngle)
             delta == IF Lt(CrossValue(h, this, vec), 0) THEN Neg(clamped) ELSE clamped
         IN  RotateBy(h, this, delta)
RotateTowardsDeg(h, this, vec, maxAngle) ==
    RotateTowards(h, this, vec, Degrees2Radian(maxAngle))

RotateTo(h, this, rotation) == RotateBy(h, this, Sub(rotation, HorizontalAngle(h, this)))
RotateToDeg(h, this, rotation) == RotateTo(h, this, Degrees2Radian(rotation))


(***************************************************************************)
(* The program: vectors are constructed, then methods are called on them   *)
(***************************************************************************)
\* the arguments of the constructor calls that build the initial vectors
CtorArgs == {0 - 1, 0, 2}
\* the object the calls are made on; the other object is passed as argument
Receivers == {1}
\* numbers passed where the method takes a number
NumArgs == {0 - 1, 0, 1, NaN, PosInf}
\* values passed for the magnitude of resize
ScalarValues == {JSNum(n) : n \in NumArgs} \cup {Undefined, Null, JSString}
\* values passed as the bounds of the clamp methods
BoundArgs == {JSNum(n) : n \in {0 - 1, 0, 1, 2, NaN, PosInf}}
                \cup {Ref(o) : o \in Objs} \cup {Undefined, Null, JSString}
\* values passed as max of the limit methods, and as factor of limit and mix
LimitArgs == {JSNum(0), JSNum(1), JSNum(NaN), JSNum(PosInf), Undefined, JSString}
FactorArgs == {JSNum(0 - 1), JSNum(0), JSNum(1), JSNum(2), JSNum(NaN), JSNum(PosInf),
               Undefined, JSString}
\* values passed to the constructor, and found as the properties x and y of
\* the object passed to fromObject (Undefined: left out)
FactoryArgs == {JSNum(1), JSNum(2), JSNum(NaN), JSNum(PosInf), StringOf(1), Undefined, Null}
PropertyArgs == {JSNum(1), JSNum(2), JSNum(NaN), StringOf(1), Undefined}
\* the arrays passed to fromArray: up to MaxLen members
ItemArgs == {JSNum(2), JSNum(NaN), StringOf(1)}
ArrayArgs == {ArrayOf(items) : items \in UNION {[1..n -> ItemArgs] : n \in 0..MaxLen}}

\* the record of the call being observed: the method, the receiver, the
\* arguments, the error thrown (or none), the value returned, and the heap
\* before the call; between two calls there is no call to observe
Ready == [op |-> "ready", this |-> Tmp, args |-> <<>>, err |-> NoError,
          ret |-> Undefined, pre |-> [o \in Objs |-> Vec(0, 0)]]

Init ==
    /\ heap \in [Objs -> {NewVector(<<>>, o, a, b).h[o] :
                            o \in {Tmp}, a \in CtorArgs, b \in CtorArgs}]
    /\ last = Ready

\* no call is being observed: the caller is free to make one
Idle == last.op = "ready"

\* the caller calls a method: the call runs to its return or its throw
Call(op, this, args, res) ==
    /\ Idle
    /\ heap' = res.h
    /\ last' = [op |-> op, this |-> this, args |-> args, err |-> res.err,
                ret |-> res.ret, pre |-> heap]

\* the caller is done with the result (or the caught error) of the call.  A
\* vector the call created is dropped, or the caller goes on with it in place
\* of the vector it has been calling methods on
Continue ==
    /\ last.op # "ready"
    /\ last' = Ready
    /\ \/ heap' = [o \in Objs |-> heap[o]]
       \/ /\ Tmp \in DOMAIN heap
          /\ \E kept \in Receivers :
                heap' = [o \in Objs |-> IF o = kept THEN heap[Tmp] ELSE heap[o]]

CallConstructor ==
    /\ Idle
    /\ \E x \in FactoryArgs, y \in FactoryArgs :
           Call("constructor", Tmp, <<x, y>>, Constructor(heap, x, y))

CallFromArray ==
    /\ Idle
    /\ \E arr \in ArrayArgs : Call("fromArray", Tmp, <<arr>>, FromArray(heap, arr))

\* fromObject of an object written out, or of what toObject returned
CallFromObject ==
    /\ Idle
    /\ \E obj \in {ObjectOf(x, y) : x \in PropertyArgs, y \in PropertyArgs}
                   \cup {ToObject(heap, o).ret : o \in Objs} :
           Call("fromObject", Tmp, <<obj>>, FromObject(heap, obj))

CallClone ==
    /\ Idle
    /\ \E this \in Objs : Call("clone", this, <<>>, Clone(heap, this, Tmp))

CallToObject ==
    /\ Idle
    /\ \E this \in Receivers : Call("toObject", this, <<>>, ToObject(heap, this))

CallIsEqualTo ==
    /\ Idle
    /\ \E this \in Receivers, vec \in Objs :
           Call("isEqualTo", this, <<Ref(vec)>>, IsEqualTo(heap, this, vec))

CallAddX ==
    /\ Idle
    /\ \E this \in Receivers, vec \in Objs :
           Call("addX", this, <<Ref(vec)>>, AddX(heap, this, vec))

CallAddY ==
    /\ Idle
    /\ \E this \in Receivers, vec \in Objs :
           Call("addY", this, <<Ref(vec)>>, AddY(heap, this, vec))

CallAdd ==
    /\ Idle
    /\ \E this \in Receivers, vec \in Objs :
           Call("add", this, <<Ref(vec)>>, AddVec(heap, this, vec))

CallSubtractX ==
    /\ Idle
    /\ \E this \in Receivers, vec \in Objs :
           Call("subtractX", this, <<Ref(vec)>>, SubtractX(heap, this, vec))

CallSubtractY ==
    /\ Idle
    /\ \E this \in Receivers, vec \in Objs :
           Call("subtractY", this, <<Ref(vec)>>, SubtractY(heap, this, vec))

CallSubtract ==
    /\ Idle
    /\ \E this \in Receivers, vec \in Objs :
           Call("subtract", this, <<Ref(vec)>>, Subtract(heap, this, vec))

CallDivideX ==
    /\ Idle
    /\ \E this \in Receivers, vec \in Objs :
           Call("divideX", this, <<Ref(vec)>>, DivideX(heap, this, vec))

CallDivideY ==
    /\ Idle
    /\ \E this \in Receivers, vec \in Objs :
           Call("divideY", this, <<Ref(vec)>>, DivideY(heap, this, vec))

CallDivide ==
    /\ Idle
    /\ \E this \in Receivers, vec \in Objs :
           Call("divide", this, <<Ref(vec)>>, Divide(heap, this, vec))

CallMultiplyX ==
    /\ Idle
    /\ \E this \in Receivers, vec \in Objs :
           Call("multiplyX", this, <<Ref(vec)>>, MultiplyX(heap, this, vec))

CallMultiplyY ==
    /\ Idle
    /\ \E this \in Receivers, vec \in Objs :
           Call("multiplyY", this, <<Ref(vec)>>, MultiplyY(heap, this, vec))

CallMultiply ==
    /\ Idle
    /\ \E this \in Receivers, vec \in Objs :
           Call("multiply", this, <<Ref(vec)>>, Multiply(heap, this, vec))

CallCopyX ==
    /\ Idle
    /\ \E this \in Receivers, vec \in Objs :
           Call("copyX", this, <<Ref(vec)>>, CopyX(heap, this, vec))

CallCopyY ==
    /\ Idle
    /\ \E this \in Receivers, vec \in Objs :
           Call("copyY", this, <<Ref(vec)>>, CopyY(heap, this, vec))

CallCopy ==
    /\ Idle
    /\ \E this \in Receivers, vec \in Objs :
           Call("copy", this, <<Ref(vec)>>, Copy(heap, this, vec))

CallProjectOnto ==
    /\ Idle
    /\ \E this \in Receivers, vec \in Objs :
           Call("projectOnto", this, <<Ref(vec)>>, ProjectOnto(heap, this, vec))

CallReflect ==
    /\ Idle
    /\ \E this \in Receivers, vec \in Objs :
           Call("reflect", this, <<Ref(vec)>>, Reflect(heap, this, vec))

CallDot ==
    /\ Idle
    /\ \E this \in Receivers, vec \in Objs :
           Call("dot", this, <<Ref(vec)>>, Dot(heap, this, vec))

CallCross ==
    /\ Idle
    /\ \E this \in Receivers, vec \in Objs :
           Call("cross", this, <<Ref(vec)>>, Cross(heap, this, vec))

CallDistance ==
    /\ Idle
    /\ \E this \in Receivers, vec \in Objs :
           Call("distance", this, <<Ref(vec)>>, Distance(heap, this, vec))

CallAngleWith ==
    /\ Idle
    /\ \E this \in Receivers, vec \in Objs :
           Call("angleWith", this, <<Ref(vec)>>, AngleWith(heap, this, vec))

CallAddScalar ==
    /\ Idle
    /\ \E this \in Receivers, scalar \in NumArgs :
           Call("addScalar", this, <<JSNum(scalar)>>, AddScalar(heap, this, scalar))

CallAddScalarX ==
    /\ Idle
    /\ \E this \in Receivers, scalar \in NumArgs :
           Call("addScalarX", this, <<JSNum(scalar)>>, AddScalarX(heap, this, scalar))

CallAddScalarY ==
    /\ Idle
    /\ \E this \in Receivers, scalar \in NumArgs :
           Call("addScalarY", this, <<JSNum(scalar)>>, AddScalarY(heap, this, scalar))

CallSubtractScalar ==
    /\ Idle
    /\ \E this \in Receivers, scalar \in NumArgs :
           Call("subtractScalar", this, <<JSNum(scalar)>>, SubtractScalar(heap, this, scalar))

CallSubtractScalarX ==
    /\ Idle
    /\ \E this \in Receivers, scalar \in NumArgs :
           Call("subtractScalarX", this, <<JSNum(scalar)>>, SubtractScalarX(heap, this, scalar))

CallSubtractScalarY ==
    /\ Idle
    /\ \E this \in Receivers, scalar \in NumArgs :
           Call("subtractScalarY", this, <<JSNum(scalar)>>, SubtractScalarY(heap, this, scalar))

CallDivideScalar ==
    /\ Idle
    /\ \E this \in Receivers, scalar \in NumArgs :
           Call("divideScalar", this, <<JSNum(scalar)>>, DivideScalar(heap, this, scalar))

CallDivideScalarX ==
    /\ Idle
    /\ \E this \in Receivers, scalar \in NumArgs :
           Call("divideScalarX", this, <<JSNum(scalar)>>, DivideScalarX(heap, this, scalar))

CallDivideScalarY ==
    /\ Idle
    /\ \E this \in Receivers, scalar \in NumArgs :
           Call("divideScalarY", this, <<JSNum(scalar)>>, DivideScalarY(heap, this, scalar))

CallMultiplyScalar ==
    /\ Idle
    /\ \E this \in Receivers, scalar \in NumArgs :
           Call("multiplyScalar", this, <<JSNum(scalar)>>, MultiplyScalar(heap, this, scalar))

CallMultiplyScalarX ==
    /\ Idle
    /\ \E this \in Receivers, scalar \in NumArgs :
           Call("multiplyScalarX", this, <<JSNum(scalar)>>, MultiplyScalarX(heap, this, scalar))

CallMultiplyScalarY ==
    /\ Idle
    /\ \E this \in Receivers, scalar \in NumArgs :
           Call("multiplyScalarY", this, <<JSNum(scalar)>>, MultiplyScalarY(heap, this, scalar))

CallRotateBy ==
    /\ Idle
    /\ \E this \in Receivers, scalar \in NumArgs :
           Call("rotateBy", this, <<JSNum(scalar)>>, RotateBy(heap, this, scalar))

CallRotateByDeg ==
    /\ Idle
    /\ \E this \in Receivers, scalar \in NumArgs :
           Call("rotateByDeg", this, <<JSNum(scalar)>>, RotateByDeg(heap, this, scalar))

CallRotateTo ==
    /\ Idle
    /\ \E this \in Receivers, scalar \in NumArgs :
           Call("rotateTo", this, <<JSNum(scalar)>>, RotateTo(heap, this, scalar))

CallRotateToDeg ==
    /\ Idle
    /\ \E this \in Receivers, scalar \in NumArgs :
           Call("rotateToDeg", this, <<JSNum(scalar)>>, RotateToDeg(heap, this, scalar))

CallFixPrecision ==
    /\ Idle
    /\ \E this \in Receivers, scalar \in NumArgs :
           Call("fixPrecision", this, <<JSNum(scalar)>>, FixPrecision(heap, this, scalar))

CallInvertX ==
    /\ Idle
    /\ \E this \in Receivers : Call("invertX", this, <<>>, InvertX(heap, this))

CallInvertY ==
    /\ Idle
    /\ \E this \in Receivers : Call("invertY", this, <<>>, InvertY(heap, this))

CallInvert ==
    /\ Idle
    /\ \E this \in Receivers : Call("invert", this, <<>>, Invert(heap, this))

CallNormalize ==
    /\ Idle
    /\ \E this \in Receivers : Call("normalize", this, <<>>, Normalize(heap, this))

CallUnfloat ==
    /\ Idle
    /\ \E this \in Receivers : Call("unfloat", this, <<>>, Unfloat(heap, this))

CallZero ==
    /\ Idle
    /\ \E this \in Receivers : Call("zero", this, <<>>, Zero(heap, this))

CallResize ==
    /\ Idle
    /\ \E this \in Receivers, magnitude \in ScalarValues :
           Call("resize", this, <<magnitude>>, Resize(heap, this, magnitude))

CallClampX ==
    /\ Idle
    /\ \E this \in Receivers, max \in BoundArgs, min \in BoundArgs :
           Call("clampX", this, <<max, min>>, ClampX(heap, this, max, min))

CallClampY ==
    /\ Idle
    /\ \E this \in Receivers, max \in BoundArgs, min \in BoundArgs :
           Call("clampY", this, <<max, min>>, ClampY(heap, this, max, min))

CallClampAxes ==
    /\ Idle
    /\ \E this \in Receivers, max \in BoundArgs, min \in BoundArgs :
           Call("clampAxes", this, <<max, min>>, ClampAxes(heap, this, max, min))

CallClampMag ==
    /\ Idle
    /\ \E this \in Receivers, max \in BoundArgs, min \in BoundArgs :
           Call("clampMag", this, <<max, min>>, ClampMag(heap, this, max, min))

CallLimitX ==
    /\ Idle
    /\ \E this \in Receivers, max \in LimitArgs, factor \in FactorArgs :
           Call("limitX", this, <<max, factor>>, LimitX(heap, this, max, factor))

CallLimitY ==
    /\ Idle
    /\ \E this \in Receivers, max \in LimitArgs, factor \in FactorArgs :
           Call("limitY", this, <<max, factor>>, LimitY(heap, this, max, factor))

CallLimit ==
    /\ Idle
    /\ \E this \in Receivers, max \in LimitArgs, factor \in FactorArgs :
           Call("limit", this, <<max, factor>>, Limit(heap, this, max, factor))

CallMixX ==
    /\ Idle
    /\ \E this \in Receivers, vec \in Objs, mixFactor \in FactorArgs :
           Call("mixX", this, <<Ref(vec), mixFactor>>, MixX(heap, this, vec, mixFactor))

CallMixY ==
    /\ Idle
    /\ \E this \in Receivers, vec \in Objs, mixFactor \in FactorArgs :
           Call("mixY", this, <<Ref(vec), mixFactor>>, MixY(heap, this, vec, mixFactor))

CallMix ==
    /\ Idle
    /\ \E this \in Receivers, vec \in Objs, mixFactor \in FactorArgs :
           Call("mix", this, <<Ref(vec), mixFactor>>, Mix(heap, this, vec, mixFactor))

CallRotateTowards ==
    /\ Idle
    /\ \E this \in Receivers, vec \in Objs, maxAngle \in NumArgs :
           Call("rotateTowards", this, <<Ref(vec), JSNum(maxAngle)>>, RotateTowards(heap, this, vec, maxAngle))

CallRotateTowardsDeg ==
    /\ Idle
    /\ \E this \in Receivers, vec \in Objs, maxAngle \in NumArgs :
           Call("rotateTowardsDeg", this, <<Ref(vec), JSNum(maxAngle)>>, RotateTowardsDeg(heap, this, vec, maxAngle))

CallRandomizeX ==
    /\ Idle
    /\ \E this \in Receivers, topLeft \in Objs, bottomRight \in Objs, draw \in RandomDraws :
           Call("randomizeX", this, <<Ref(topLeft), Ref(bottomRight)>>,
                RandomizeX(heap, this, topLeft, bottomRight, draw))

CallRandomizeY ==
    /\ Idle
    /\ \E this \in Receivers, topLeft \in Objs, bottomRight \in Objs, draw \in RandomDraws :
           Call("randomizeY", this, <<Ref(topLeft), Ref(bottomRight)>>,
                RandomizeY(heap, this, topLeft, bottomRight, draw))

CallRandomize ==
    /\ Idle
    /\ \E this \in Receivers, topLeft \in Objs, bottomRight \in Objs,
          drawX \in RandomDraws, drawY \in RandomDraws :
           Call("randomize", this, <<Ref(topLeft), Ref(bottomRight)>>,
                Randomize(heap, this, topLeft, bottomRight, drawX, drawY))

CallRandomizeAny ==
    /\ Idle
    /\ \E this \in Receivers, topLeft \in Objs, bottomRight \in Objs,
          coin \in RandomDraws, draw \in RandomDraws :
           Call("randomizeAny", this, <<Ref(topLeft), Ref(bottomRight)>>,
                RandomizeAny(heap, this, topLeft, bottomRight, coin, draw))

Next ==
    \/ Continue
    \/ CallConstructor
    \/ CallFromArray
    \/ CallFromObject
    \/ CallClone
    \/ CallToObject
    \/ CallIsEqualTo
    \/ CallAddX
    \/ CallAddY
    \/ CallAdd
    \/ CallSubtractX
    \/ CallSubtractY
    \/ CallSubtract
    \/ CallDivideX
    \/ CallDivideY
    \/ CallDivide
    \/ CallMultiplyX
    \/ CallMultiplyY
    \/ CallMultiply
    \/ CallCopyX
    \/ CallCopyY
    \/ CallCopy
    \/ CallProjectOnto
    \/ CallReflect
    \/ CallDot
    \/ CallCross
    \/ CallDistance
    \/ CallAngleWith
    \/ CallAddScalar
    \/ CallAddScalarX
    \/ CallAddScalarY
    \/ CallSubtractScalar
    \/ CallSubtractScalarX
    \/ CallSubtractScalarY
    \/ CallDivideScalar
    \/ CallDivideScalarX
    \/ CallDivideScalarY
    \/ CallMultiplyScalar
    \/ CallMultiplyScalarX
    \/ CallMultiplyScalarY
    \/ CallRotateBy
    \/ CallRotateByDeg
    \/ CallRotateTo
    \/ CallRotateToDeg
    \/ CallFixPrecision
    \/ CallInvertX
    \/ CallInvertY
    \/ CallInvert
    \/ CallNormalize
    \/ CallUnfloat
    \/ CallZero
    \/ CallResize
    \/ CallClampX
    \/ CallClampY
    \/ CallClampAxes
    \/ CallClampMag
    \/ CallLimitX
    \/ CallLimitY
    \/ CallLimit
    \/ CallMixX
    \/ CallMixY
    \/ CallMix
    \/ CallRotateTowards
    \/ CallRotateTowardsDeg
    \/ CallRandomizeX
    \/ CallRandomizeY
    \/ CallRandomize
    \/ CallRandomizeAny

Spec == Init /\ [][Next]_vars

(***************************************************************************)
(* The program that calls limitX, or limit, again and again                *)
(*   const v = new Vector(x, y); while (true) v.limitX(max, factor);       *)
(* with max > 0 and 0 <= factor < 1                                        *)
(***************************************************************************)
LoopMaxes == {JSNum(m) : m \in 1..MaxNum}
Shrinks == {Fraction(k) : k \in 0..(FracDen - 1)}
LoopOps == {"limitX", "limit"}
\* the position of the caller between two calls of the loop
LoopHead(op) == IF op = "limitX" THEN "repeat limitX" ELSE "repeat limit"

LoopInit ==
    /\ heap \in {[o \in Objs |-> IF o \in Receivers THEN Vec(a, b) ELSE Vec(0, 0)] :
                    a \in Finite, b \in Finite}
    /\ last = Ready

\* one call of the loop: the first call fixes the receiver and the arguments,
\* every later call repeats them
LoopCall(op, this, max, factor, res) ==
    /\ \/ last.op = "ready"
       \/ last.op = LoopHead(op) /\ last.this = this /\ last.args = <<max, factor>>
    /\ heap' = res.h
    /\ last' = [op |-> op, this |-> this, args |-> <<max, factor>>,
                err |-> res.err, ret |-> res.ret, pre |-> heap]

LoopLimitX ==
    \E this \in Receivers, max \in LoopMaxes, factor \in Shrinks :
        LoopCall("limitX", this, max, factor, LimitX(heap, this, max, factor))

LoopLimit ==
    \E this \in Receivers, max \in LoopMaxes, factor \in Shrinks :
        LoopCall("limit", this, max, factor, Limit(heap, this, max, factor))

\* the call has returned and the loop goes round
LoopBack ==
    /\ last.op \in LoopOps
    /\ last' = [last EXCEPT !.op = LoopHead(last.op)]
    /\ UNCHANGED heap

LoopNext ==
    \/ LoopLimitX
    \/ LoopLimit
    \/ LoopBack

\* the loop never ends: whenever a step of it is possible, one is taken
LoopSpec == LoopInit /\ [][LoopNext]_vars /\ WF_vars(LoopNext)


(***************************************************************************)
(* Vocabulary of the claims                                                *)
(***************************************************************************)
Called == last.op # "ready"
Threw == Called /\ last.err # NoError
Returned == Called /\ last.err = NoError

\* the methods that never assign a component
ReadOnlyOps == {"dot", "cross", "distance", "angleWith",
                "clone", "toObject", "isEqualTo"}
ClampOps == {"clampX", "clampY", "clampAxes", "clampMag"}
DivideOps == {"divide", "divideX", "divideY",
              "divideScalar", "divideScalarX", "divideScalarY"}

\* the receiver has the components it had before the call
ReceiverUnchanged ==
    last.this \in DOMAIN last.pre => heap[last.this] = last.pre[last.this]

\* the vector passed as i-th argument, as it was before the call
ArgVec(i) == last.pre[last.args[i].n]
WasZero(vec) == vec.x = 0 /\ vec.y = 0
WasFinite(vec) == IsFiniteNum(vec.x) /\ IsFiniteNum(vec.y)

(***************************************************************************)
(* C1                                                                      *)
(***************************************************************************)
\* C1: a call of a mutating method that throws leaves the receiver's x and y
\* as they were immediately before the call: no call throws after having
\* changed part of the receiver.
C1_ThrowLeavesReceiver == Threw => ReceiverUnchanged

\* what the code does guarantee: every method but clampAxes throws before
\* it assigns anything
C1_ThrowLeavesReceiverButClampAxes ==
    (Threw /\ last.op # "clampAxes") => ReceiverUnchanged

(***************************************************************************)
(* C2                                                                      *)
(***************************************************************************)
\* the divisor of the division just called is exactly 0
DivisorIsZero ==
    \/ last.op = "divideX" /\ ArgVec(1).x = 0
    \/ last.op = "divideY" /\ ArgVec(1).y = 0
    \/ last.op = "divide" /\ (ArgVec(1).x = 0 \/ ArgVec(1).y = 0)
    \/ last.op \in {"divideScalar", "divideScalarX", "divideScalarY"} /\ last.args[1].n = 0

\* C2: a division whose divisor (the scalar, or the relevant axis of the
\* argument vector; for divide, either axis) is exactly 0 throws
\* DivisionByZeroError and leaves x and y unchanged; divideX and divideY
\* succeed when only the other axis of the divisor is 0.
C2_DivisionByZero ==
    /\ (Called /\ DivisorIsZero) =>
            (last.err = "DivisionByZeroError" /\ ReceiverUnchanged)
    /\ (Called /\ last.op = "divideX" /\ ArgVec(1).x # 0 /\ ArgVec(1).y = 0) => Returned
    /\ (Called /\ last.op = "divideY" /\ ArgVec(1).y # 0 /\ ArgVec(1).x = 0) => Returned

\* divide of a non-zero receiver by a vector whose y alone is 0 has thrown
C2_Witness ==
    /\ Called /\ last.op = "divide"
    /\ ArgVec(1).x # 0 /\ ArgVec(1).y = 0
    /\ last.pre[last.this].x # 0
    /\ last.err = "DivisionByZeroError"

(***************************************************************************)
(* C3                                                                      *)
(***************************************************************************)
\* the call divides by the magnitude of a zero vector: normalize, or resize
\* with a magnitude passed, on a zero receiver; projectOnto or reflect with a
\* zero argument
ZeroMagnitudeCall ==
    \/ last.op = "normalize" /\ WasZero(last.pre[last.this])
    \/ /\ last.op = "resize"
       /\ last.args[1].t \notin {"undefined", "null"}
       /\ WasZero(last.pre[last.this])
    \/ last.op \in {"projectOnto", "reflect"} /\ WasZero(ArgVec(1))

TwoBoundsOfOneKind ==
    /\ last.args[1].t = last.args[2].t
    /\ last.args[1].t \in {"number", "object"}

\* the value the clamp of `axis` reads off the i-th bound: the number itself,
\* or that axis of the bound vector as it was before the call
AxisBound(i, axis) ==
    IF last.args[i].t = "object" THEN ArgVec(i)[axis] ELSE last.args[i].n

\* the i-th bound is finite: a finite number, or a vector of finite components
FiniteBound(i) ==
    IF last.args[i].t = "object" THEN WasFinite(ArgVec(i))
    ELSE IsFiniteNum(last.args[i].n)

\* the clamp method `op` applied to the heap h with the bounds max and min
ClampCall(op, h, this, max, min) ==
    CASE op = "clampX" -> ClampX(h, this, max, min)
      [] op = "clampY" -> ClampY(h, this, max, min)
      [] op = "clampAxes" -> ClampAxes(h, this, max, min)
      [] op = "clampMag" -> ClampMag(h, this, max, min)

\* the call just made, made again on the same receiver with its two bounds
\* exchanged
Exchanged == ClampCall(last.op, last.pre, last.this, last.args[2], last.args[1])

(***************************************************************************)
(* C4                                                                      *)
(***************************************************************************)
\* after the call the component `axis` of the receiver lies between the
\* first and the second bound
AxisWithinBounds(axis) ==
    /\ AxisBound(1, axis) <= heap[last.this][axis]
    /\ heap[last.this][axis] <= AxisBound(2, axis)

\* the call clamps `axis` of a finite receiver between finite lo <= hi, given
\* in this order as two numbers or two vectors
ClampsAxisBetween(axis) ==
    /\ TwoBoundsOfOneKind
    /\ FiniteBound(1) /\ FiniteBound(2)
    /\ WasFinite(last.pre[last.this])
    /\ AxisBound(1, axis) <= AxisBound(2, axis)

\* C4: for finite lo <= hi and a receiver of finite components, after
\* clampX(lo, hi) returns lo <= x <= hi; likewise clampY for y and clampAxes for
\* both axes, the bounds being two numbers or two vectors.
C4_ClampInvariant ==
    /\ (Returned /\ last.op \in {"clampX", "clampAxes"} /\ ClampsAxisBetween("x"))
            => AxisWithinBounds("x")
    /\ (Returned /\ last.op \in {"clampY", "clampAxes"} /\ ClampsAxisBetween("y"))
            => AxisWithinBounds("y")

\* clampAxes between two vectors has raised x to the lower bound and lowered y
\* to the upper bound
C4_Witness ==
    /\ Returned /\ last.op = "clampAxes"
    /\ last.args[1].t = "object" /\ last.args[2].t = "object"
    /\ ClampsAxisBetween("x") /\ ClampsAxisBetween("y")
    /\ last.pre[last.this].x < AxisBound(1, "x") /\ heap[last.this].x = AxisBound(1, "x")
    /\ last.pre[last.this].y > AxisBound(2, "y") /\ heap[last.this].y = AxisBound(2, "y")

(***************************************************************************)
(* C5                                                                      *)
(***************************************************************************)
\* a clamp call with two finite bounds of the same kind
ClampWithTwoFiniteBounds ==
    /\ Called /\ last.op \in ClampOps
    /\ TwoBoundsOfOneKind
    /\ FiniteBound(1) /\ FiniteBound(2)

ClampWithSecondLarger ==
    /\ Called /\ last.op \in ClampOps
    /\ last.args[1].t = "number" /\ last.args[2].t = "number"
    /\ IsFiniteNum(last.args[1].n) /\ IsFiniteNum(last.args[2].n)
    /\ last.args[2].n > last.args[1].n

ClampWithMixedBounds ==
    /\ Called /\ last.op \in ClampOps
    /\ {last.args[1].t, last.args[2].t} = {"number", "object"}

\* C7 as claimed: such a call throws TypeError whatever the values, and the
\* receiver is unchanged.
C7_MixedBoundsThrowTypeError ==
    ClampWithMixedBounds => (last.err = "TypeError" /\ ReceiverUnchanged)

\* the error the first bound, a number, raises before the kinds are compared
FirstNumberError ==
    IF ~IsFiniteNum(last.args[1].n) THEN "InvalidNumberError"
    ELSE IF last.op = "clampMag" /\ last.args[1].n < 0 THEN "RangeError"
    ELSE "TypeError"

\* C7 as amended: such a call throws and leaves the receiver unchanged; the
\* error is TypeError when the first bound is the vector or a finite number
\* (for clampMag, a non-negative one), InvalidNumberError when the first bound
\* is NaN or infinite, RangeError for clampMag with a negative first bound.
C7_MixedBoundsThrow ==
    ClampWithMixedBounds =>
        /\ ReceiverUnchanged
        /\ last.args[1].t = "object" => last.err = "TypeError"
        /\ last.args[1].t = "number" => last.err = FirstNumberError

\* a vector first and NaN second: the kinds are compared before NaN is looked at
C7_Witness ==
    /\ ClampWithMixedBounds
    /\ last.args[1].t = "object" /\ last.args[2].n = NaN
    /\ last.err = "TypeError"

(***************************************************************************)
(* C8                                                                      *)
(***************************************************************************)
\* a value passed as a numeric bound that is no finite number
NotFiniteNumber(val) ==
    \/ val.t = "number" /\ ~IsFiniteNum(val.n)
    \/ val.t \in {"string", "null"}

FirstNumberAccepted ==
    /\ last.args[1].t = "number" /\ IsFiniteNum(last.args[1].n)
    /\ (last.op = "clampMag" => last.args[1].n >= 0)

C9_ArgumentUnchanged ==
    Called => \A o \in Objs \ {last.this} : heap[o] = last.pre[o]

\* reflect about another, non-zero vector has changed the receiver
C9_Witness ==
    /\ Returned /\ last.op = "reflect"
    /\ last.args[1].n # last.this
    /\ ~WasZero(ArgVec(1))
    /\ ~ReceiverUnchanged

(***************************************************************************)
(* C10                                                                     *)
(***************************************************************************)
\* C10: a mutating method that returns normally returns the object it was
\* called on, also on the paths that change no component.
C10_ReturnsReceiver ==
    (Returned /\ last.op \notin ReadOnlyOps) => last.ret = Ref(last.this)

\* limitX below its threshold and clampMag of a magnitude in range have
\* returned without changing a component
C10_Witness ==
    /\ Returned /\ last.op \in {"limitX", "clampMag"}
    /\ last.args[2].t = "number"
    /\ ReceiverUnchanged
    /\ last.ret = Ref(last.this)

(***************************************************************************)
(* C11                                                                     *)
(***************************************************************************)
\* every vector of the heap h has finite components
AllFinite(h) == \A o \in DOMAIN h : WasFinite(h[o])

\* every argument of the call is a vector or a finite number
ArgsAreFinite ==
    \A i \in DOMAIN last.args :
        last.args[i].t = "object" \/ NumberIsFinite(last.args[i])

\* C11: x and y are finite after any sequence of calls that return normally
\* and whose arguments are finite numbers or vectors: a call that starts from
\* vectors of finite components, is given such arguments and returns leaves
\* every vector with finite components.
C11_ComponentsStayFinite ==
    (Returned /\ ArgsAreFinite /\ AllFinite(last.pre)) => AllFinite(heap)

(***************************************************************************)
(* C12                                                                     *)
(***************************************************************************)
\* resize was called without a magnitude, or with one that is not finite
ResizeWithInvalidMagnitude ==
    /\ Called /\ last.op = "resize"
    /\ \/ last.args[1].t = "undefined"
       \/ last.args[1].t = "number" /\ ~IsFiniteNum(last.args[1].n)

\* C12: resize(newMagnitude) signals the invalid-number error whenever
\* newMagnitude is not provided or is NaN, +Infinity or -Infinity.
C12_ResizeRejectsInvalidMagnitude ==
    ResizeWithInvalidMagnitude => last.err = "InvalidNumberError"

(***************************************************************************)
(* C13                                                                     *)
(***************************************************************************)
LimitOps == {"limit", "limitX", "limitY"}
MixOps == {"mix", "mixX", "mixY"}

\* a limit method was called with a max that is missing, non-numeric, NaN or
\* infinite
LimitWithInvalidMax ==
    Called /\ last.op \in LimitOps /\ ~NumberIsFinite(last.args[1])

\* a mix method was called with a factor that is non-numeric, NaN or infinite
MixWithInvalidFactor ==
    /\ Called /\ last.op \in MixOps
    /\ last.args[2].t # "undefined"
    /\ ~NumberIsFinite(last.args[2])

\* C13: limit, limitX and limitY with a max that is missing, non-numeric, NaN
\* or infinite, and mix, mixX and mixY with a factor that is non-numeric, NaN
\* or infinite, raise the invalid-number error.
C13_LimitAndMixValidate ==
    (LimitWithInvalidMax \/ MixWithInvalidFactor) => last.err = "InvalidNumberError"

(***************************************************************************)
(* C14                                                                     *)
(***************************************************************************)
\* the call created no vector: nothing is returned and the heap is as before
NoVectorProduced == last.ret = Undefined /\ heap = last.pre

\* the call returned a new vector of components a and b, and touched no other
NewVectorProduced(a, b) ==
    /\ last.err = NoError /\ last.ret = Ref(Tmp)
    /\ Tmp \notin DOMAIN last.pre
    /\ heap = (Tmp :> Vec(a, b)) @@ last.pre

\* an argument the constructor takes: left out, or a finite number
CtorAccepts(val) == val.t = "undefined" \/ NumberIsFinite(val)

FiniteNumberValue(val) == val.t = "number" /\ val.n \in Finite

\* the array has at least 2 members and its first two are finite numbers
ArrayIsValid(arr) ==
    /\ Len(arr.items) >= 2
    /\ FiniteNumberValue(arr.items[1]) /\ FiniteNumberValue(arr.items[2])

\* the properties x and y of the object are finite numbers
ObjectIsValid(obj) == FiniteNumberValue(obj.x) /\ FiniteNumberValue(obj.y)

NumberOrNumericString(val) ==
    val.t \in {"number", "string"} /\ val.n \in Finite

\* fromArray or fromObject was called with two values that are finite numbers
\* or strings representing them, one of them at least a string; FactoryX and
\* FactoryY are the two values
FactoryX ==
    IF last.op = "fromArray" THEN Item(last.args[1], 1) ELSE last.args[1].x
FactoryY ==
    IF last.op = "fromArray" THEN Item(last.args[1], 2) ELSE last.args[1].y
FactoryGivenNumericString ==
    /\ Called /\ last.op \in {"fromArray", "fromObject"}
    /\ NumberOrNumericString(FactoryX) /\ NumberOrNumericString(FactoryY)
    /\ "string" \in {FactoryX.t, FactoryY.t}

NegativeNumber(val) == val.t = "number" /\ Lt(val.n, 0)

\* a mix method called with a factor below 0 or above 1, or rotateTowards
\* called with a max angle that is 0 or less
FactorOrAngleOutOfRange ==
    \/ /\ Called /\ last.op \in MixOps
       /\ last.args[2].t = "number"
       /\ (Lt(last.args[2].n, 0) \/ Gt(last.args[2].n, 1))
    \/ /\ Called /\ last.op = "rotateTowards"
       /\ Le(last.args[2].n, 0)

MagBound(i) ==
    IF last.args[i].t = "object" THEN Mag(last.pre, last.args[i].n)
    ELSE last.args[i].n

\* the i-th bound is a finite non-negative number, or a vector whose
\* magnitude is finite
FiniteMagBound(i) ==
    /\ last.args[i].t = "object" \/ NumberIsFinite(last.args[i])
    /\ IsFiniteNum(MagBound(i)) /\ MagBound(i) >= 0

\* clampMag(a, b), and clampMag(a), with such bounds has returned
ClampMagTwoReturned ==
    /\ Returned /\ last.op = "clampMag"
    /\ last.args[2].t # "undefined"
    /\ FiniteMagBound(1) /\ FiniteMagBound(2)
ClampMagOneReturned ==
    /\ Returned /\ last.op = "clampMag"
    /\ last.args[2].t = "undefined"
    /\ FiniteMagBound(1)

LoMag == SortBounds(MagBound(1), MagBound(2)).lo
HiMag == SortBounds(MagBound(1), MagBound(2)).hi

\* the magnitude of the receiver before and after the call
MagBefore == Mag(last.pre, last.this)
MagAfter == Mag(heap, last.this)

\* the component b points the way the component a did, or has become 0
KeepsSign(a, b) == b = 0 \/ (a < 0 /\ b < 0) \/ (a > 0 /\ b > 0 /\ b # NaN)
DirectionKept ==
    /\ KeepsSign(last.pre[last.this].x, heap[last.this].x)
    /\ KeepsSign(last.pre[last.this].y, heap[last.this].y)

Resized(magnitude) == Resize(last.pre, last.this, JSNum(magnitude)).h[last.this]

OthersUntouched ==
    \A o \in DOMAIN last.pre : o # last.this => heap[o] = last.pre[o]

\* C19: clone() returns a new object, distinct from the receiver, with the x
\* and y of the receiver, and the two are independent: a later call on either
\* leaves the x and y of the other unchanged.
C19_CloneIsIndependentCopy ==
    /\ (Called /\ last.op = "clone") =>
            NewVectorProduced(last.pre[last.this].x, last.pre[last.this].y)
    /\ Called => OthersUntouched

\* what the code does guarantee: the same for a receiver of finite components;
\* clone() of any other receiver throws TypeError and returns no vector
C19_CloneOfFiniteVector ==
    /\ (Called /\ last.op = "clone") =>
            IF WasFinite(last.pre[last.this])
            THEN NewVectorProduced(last.pre[last.this].x, last.pre[last.this].y)
            ELSE last.err = "TypeError" /\ NoVectorProduced
    /\ Called => OthersUntouched

(***************************************************************************)
(* C20                                                                     *)
(***************************************************************************)
\* fromObject was called with what toObject returns for the vector o, whose
\* components are finite
FromObjectOfToObject(o) ==
    /\ Called /\ last.op = "fromObject"
    /\ WasFinite(last.pre[o])
    /\ last.args[1] = ToObject(last.pre, o).ret

\* C20: for every vector v of finite components,
\* Vector.fromObject(v.toObject()).isEqualTo(v) is true.
C20_RoundTrip ==
    \A o \in Objs :
        FromObjectOfToObject(o) =>
            /\ last.err = NoError /\ last.ret = Ref(Tmp)
            /\ IsEqualTo(heap, Tmp, o).ret = JSBool(TRUE)

\* the round trip has been made for a vector whose x and y differ
C20_Witness ==
    \E o \in Objs :
        /\ FromObjectOfToObject(o)
        /\ last.pre[o].x # last.pre[o].y /\ last.pre[o].x # 0
        /\ last.err = NoError
        /\ heap[Tmp] = last.pre[o]

(***************************************************************************)
(* C21                                                                     *)
(***************************************************************************)
XOnlyOps == {"addX", "subtractX", "multiplyX", "divideX",
             "addScalarX", "subtractScalarX", "multiplyScalarX", "divideScalarX",
             "invertX", "clampX", "limitX", "mixX", "copyX", "randomizeX"}
YOnlyOps == {"addY", "subtractY", "multiplyY", "divideY",
             "addScalarY", "subtractScalarY", "multiplyScalarY", "divideScalarY",
             "invertY", "clampY", "limitY", "mixY", "copyY", "randomizeY"}

\* C21: every X-only method leaves the receiver's y exactly as it was and
\* every Y-only method leaves x exactly as it was, for all arguments, whether
\* the call returns or throws.
C21_OtherAxisUntouched ==
    /\ (Called /\ last.op \in XOnlyOps) => heap[last.this].y = last.pre[last.this].y
    /\ (Called /\ last.op \in YOnlyOps) => heap[last.this].x = last.pre[last.this].x

\* copyX from another vector, whose x and y both differ from the receiver's,
\* has changed x and kept y
C21_Witness ==
    /\ Returned /\ last.op = "copyX"
    /\ ArgVec(1).x # last.pre[last.this].x
    /\ ArgVec(1).y # last.pre[last.this].y
    /\ heap[last.this].x = ArgVec(1).x
    /\ heap[last.this].y = last.pre[last.this].y

(***************************************************************************)
(* C22                                                                     *)
(***************************************************************************)
\* the component a after the limit test: multiplied by factor when its
\* absolute value is greater than max, and a itself otherwise
Limited(a, max, factor) ==
    IF Gt(MathAbs(a), ToNumber(max)) THEN Mul(a, ToNumber(factor)) ELSE a

\* C22: limitX(max, factor) multiplies x by factor exactly when |x| > max and
\* otherwise leaves x unchanged (it never sets x to max); limit applies the
\* test to x and to y independently, each against its own value before the
\* call.
C22_LimitShrinks ==
    /\ (Called /\ last.op \in {"limitX", "limit"}) =>
            heap[last.this].x = Limited(last.pre[last.this].x, last.args[1], last.args[2])
    /\ (Called /\ last.op \in {"limitY", "limit"}) =>
            heap[last.this].y = Limited(last.pre[last.this].y, last.args[1], last.args[2])
    /\ (Called /\ last.op \in LimitOps) => Returned

\* limit(1, 2) on (2, -1): x was beyond max and is doubled, y was not and is
\* kept
C22_Witness ==
    /\ Returned /\ last.op = "limit"
    /\ last.args = <<JSNum(1), JSNum(2)>>
    /\ last.pre[last.this] = Vec(2, 0 - 1)
    /\ heap[last.this] = Vec(4, 0 - 1)

(***************************************************************************)
(* C23                                                                     *)
(***************************************************************************)
\* rotateTowards(vec, maxAngle) returned, with maxAngle > 0 and the receiver
\* and vec finite before the call
RotatedTowards ==
    /\ Returned /\ last.op = "rotateTowards"
    /\ Gt(ToNumber(last.args[2]), 0)
    /\ WasFinite(last.pre[last.this]) /\ WasFinite(ArgVec(1))
\* the angle between the receiver and vec, before and after the call
AngleBefore == AngleWithValue(last.pre, last.this, last.args[1].n)
AngleAfter == AngleWithValue(heap, last.this, last.args[1].n)

\* C23: rotateTowards(vec, maxAngle) with maxAngle > 0 never overshoots: the
\* receiver's angle to vec afterwards is its previous angle minus the amount
\* it was rotated by, so it is a number and it is not greater than the angle
\* before the call.
C23_NeverOvershoots == RotatedTowards => Le(AngleAfter, AngleBefore)

(***************************************************************************)
(* C24                                                                     *)
(***************************************************************************)
\* a lies between b and c, whichever of the two is larger
Between(a, b, c) == Le(MathMin(b, c), a) /\ Le(a, MathMax(b, c))
\* randomizeAny(topLeft, bottomRight) was called on a finite receiver with
\* finite bound vectors
RandomizedAny ==
    /\ Called /\ last.op = "randomizeAny"
    /\ WasFinite(last.pre[last.this]) /\ WasFinite(ArgVec(1)) /\ WasFinite(ArgVec(2))
\* one axis has a value between the bounds and the other its previous value
OneAxisDrawn ==
    \/ /\ heap[last.this].y = last.pre[last.this].y
       /\ Between(heap[last.this].x, ArgVec(1).x, ArgVec(2).x)
    \/ /\ heap[last.this].x = last.pre[last.this].x
       /\ Between(heap[last.this].y, ArgVec(1).y, ArgVec(2).y)
\* the distance between the two bounds is a finite number on both axes
SpanIsFinite ==
    /\ IsFiniteNum(Sub(MathMax(ArgVec(1).x, ArgVec(2).x), MathMin(ArgVec(1).x, ArgVec(2).x)))
    /\ IsFiniteNum(Sub(MathMax(ArgVec(1).y, ArgVec(2).y), MathMin(ArgVec(1).y, ArgVec(2).y)))

\* C24: randomizeAny assigns a new value to exactly one of x and y and the
\* other keeps its previous value; the assigned value lies between the
\* corresponding axes of the two bound vectors, whichever of them is larger.
C24_RandomizeAnyOneAxis == RandomizedAny => (Returned /\ OneAxisDrawn)

\* the same statement for bounds whose distance does not overflow
C24_WithinFiniteSpan == (RandomizedAny /\ SpanIsFinite) => (Returned /\ OneAxisDrawn)

(***************************************************************************)
(* C25                                                                     *)
(***************************************************************************)
\* angleWith(vec) was called with the receiver or vec the zero vector
AngleWithZeroVector ==
    /\ Called /\ last.op = "angleWith"
    /\ (WasZero(last.pre[last.this]) \/ WasZero(ArgVec(1)))

C26_ClampAxesBothOrNeither ==
    (Threw /\ last.op = "clampAxes") => heap[last.this].x = last.pre[last.this].x

(***************************************************************************)
(* C27                                                                     *)
(***************************************************************************)
\* the methods that take a vector argument
VectorArgOps ==
    {"isEqualTo", "addX", "addY", "add", "subtractX", "subtractY", "subtract",
     "divideX", "divideY", "divide", "multiplyX", "multiplyY", "multiply",
     "copyX", "copyY", "copy", "projectOnto", "reflect", "dot", "cross",
     "distance", "angleWith", "clampX", "clampY", "clampAxes", "clampMag",
     "mixX", "mixY", "mix", "rotateTowards", "rotateTowardsDeg",
     "randomizeX", "randomizeY", "randomize", "randomizeAny"}

\* the outcomes of the method op called on this with the arguments a in the
\* heap h (one outcome for each draw of Math.random)
Outcomes(op, h, this, a) ==
    CASE op = "isEqualTo" -> {IsEqualTo(h, this, a[1].n)}
      [] op = "addX" -> {AddX(h, this, a[1].n)}
      [] op = "addY" -> {AddY(h, this, a[1].n)}
      [] op = "add" -> {AddVec(h, this, a[1].n)}
      [] op = "subtractX" -> {SubtractX(h, this, a[1].n)}
      [] op = "subtractY" -> {SubtractY(h, this, a[1].n)}
      [] op = "subtract" -> {Subtract(h, this, a[1].n)}
      [] op = "divideX" -> {DivideX(h, this, a[1].n)}
      [] op = "divideY" -> {DivideY(h, this, a[1].n)}
      [] op = "divide" -> {Divide(h, this, a[1].n)}
      [] op = "multiplyX" -> {MultiplyX(h, this, a[1].n)}
      [] op = "multiplyY" -> {MultiplyY(h, this, a[1].n)}
      [] op = "multiply" -> {Multiply(h, this, a[1].n)}
      [] op = "copyX" -> {CopyX(h, this, a[1].n)}
      [] op = "copyY" -> {CopyY(h, this, a[1].n)}
      [] op = "copy" -> {Copy(h, this, a[1].n)}
      [] op = "projectOnto" -> {ProjectOnto(h, this, a[1].n)}
      [] op = "reflect" -> {Reflect(h, this, a[1].n)}
      [] op = "dot" -> {Dot(h, this, a[1].n)}
      [] op = "cross" -> {Cross(h, this, a[1].n)}
      [] op = "distance" -> {Distance(h, this, a[1].n)}
      [] op = "angleWith" -> {AngleWith(h, this, a[1].n)}
      [] op = "clampX" -> {ClampX(h, this, a[1], a[2])}
      [] op = "clampY" -> {ClampY(h, this, a[1], a[2])}
      [] op = "clampAxes" -> {ClampAxes(h, this, a[1], a[2])}
      [] op = "clampMag" -> {ClampMag(h, this, a[1], a[2])}
      [] op = "mixX" -> {MixX(h, this, a[1].n, a[2])}
      [] op = "mixY" -> {MixY(h, this, a[1].n, a[2])}
      [] op = "mix" -> {Mix(h, this, a[1].n, a[2])}
      [] op = "rotateTowards" -> {RotateTowards(h, this, a[1].n, a[2].n)}
      [] op = "rotateTowardsDeg" -> {RotateTowardsDeg(h, this, a[1].n, a[2].n)}
      [] op = "randomizeX" ->
            {RandomizeX(h, this, a[1].n, a[2].n, d) : d \in RandomDraws}
      [] op = "randomizeY" ->
            {RandomizeY(h, this, a[1].n, a[2].n, d) : d \in RandomDraws}
      [] op = "randomize" ->
            {Randomize(h, this, a[1].n, a[2].n, d, e) : d \in RandomDraws, e \in RandomDraws}
      [] op = "randomizeAny" ->
            {RandomizeAny(h, this, a[1].n, a[2].n, c, d) : c \in RandomDraws, d \in RandomDraws}

\* the method just called took the receiver itself as a vector argument
SelfArgument ==
    /\ Called /\ last.op \in VectorArgOps
    /\ \E i \in DOMAIN last.args : last.args[i] = Ref(last.this)
\* the heap before the call with an independent clone of the receiver in Tmp,
\* and the arguments of the call with that clone in place of the receiver
WithClone == (Tmp :> last.pre[last.this]) @@ last.pre
CloneArgs == [i \in DOMAIN last.args |->
                 IF last.args[i] = Ref(last.this) THEN Ref(Tmp) ELSE last.args[i]]
\* the outcome res leaves the receiver as the call just made has left it,
\* with the same error or the same returned value
SameOutcome(res) ==
    /\ res.err = last.err
    /\ res.h[last.this] = heap[last.this]
    /\ res.ret = last.ret
\* v.op(v) behaves as v.op(c) for an independent clone c of v
AliasingIsHarmless ==
    SelfArgument => \E res \in Outcomes(last.op, WithClone, last.this, CloneArgs) :
                        SameOutcome(res)
\* v.projectOnto(v) leaves a finite non-zero v unchanged
ProjectOntoSelfKeeps ==
    (/\ Called /\ last.op = "projectOnto" /\ last.args[1] = Ref(last.this)
     /\ WasFinite(last.pre[last.this]) /\ ~WasZero(last.pre[last.this])) =>
        (Returned /\ ReceiverUnchanged)

\* C27: for every method that takes a vector argument, v.op(v) leaves v in
\* the same state, or throws the same error, as the call on an equal vector
\* with an independent clone of v as argument; in particular v.projectOnto(v)
\* leaves a non-zero v unchanged.
C27_SelfArgument == AliasingIsHarmless /\ ProjectOntoSelfKeeps

\* the first half of C27 alone
C27_AliasingIsHarmless == AliasingIsHarmless
\* a call with the receiver as its own argument that changed the receiver
C27_AliasedWitness ==
    /\ SelfArgument /\ Returned /\ last.op = "divide"
    /\ heap[last.this] # last.pre[last.this]

(***************************************************************************)
(* C28                                                                     *)
(***************************************************************************)
\* the i-th bound is a finite number or a finite vector
ValidMagBound(i) ==
    \/ NumberIsFinite(last.args[i])
    \/ last.args[i].t = "object" /\ WasFinite(ArgVec(i))
\* clampMag was called with two valid bounds of the same kind, the lower of
\* them greater than 0, on a receiver that is the zero vector
ClampMagOfZeroVector ==
    /\ Called /\ last.op = "clampMag"
    /\ last.args[2].t # "undefined"
    /\ ValidMagBound(1) /\ ValidMagBound(2)
    /\ last.args[1].t = last.args[2].t
    /\ Gt(LoMag, 0)
    /\ WasZero(last.pre[last.this])

\* C28: clampMag with a lower bound greater than 0 on a receiver of magnitude
\* zero throws DivisionByZeroError and leaves the receiver at (0, 0); it never
\* returns normally with the magnitude still below the lower bound.
C28_ClampMagZeroThrows ==
    ClampMagOfZeroVector =>
        /\ last.err = "DivisionByZeroError"
        /\ WasZero(heap[last.this])

\* the same statement for bounds whose magnitudes are finite
C28_FiniteMagnitudes ==
    (ClampMagOfZeroVector /\ IsFiniteNum(MagBound(1)) /\ IsFiniteNum(MagBound(2))) =>
        /\ last.err = "DivisionByZeroError"
        /\ WasZero(heap[last.this])
\* whatever the bounds, the call does not return
C28_NeverReturns == ClampMagOfZeroVector => (Threw /\ WasZero(heap[last.this]))
\* clampMag(1, 2) on the zero vector threw DivisionByZeroError
C28_ZeroVectorWitness ==
    /\ ClampMagOfZeroVector
    /\ last.args = <<JSNum(1), JSNum(2)>>
    /\ last.err = "DivisionByZeroError"

(***************************************************************************)
(* C29                                                                     *)
(***************************************************************************)
ClampAxisOps == {"clampX", "clampY", "clampAxes"}
\* the i-th bound is a finite number or a finite vector
FiniteClampBound(i) ==
    \/ NumberIsFinite(last.args[i])
    \/ last.args[i].t = "object" /\ WasFinite(ArgVec(i))
\* clampX, clampY or clampAxes was called with one or two finite bounds of
\* the same kind
ClampedWithFiniteBounds ==
    /\ Called /\ last.op \in ClampAxisOps
    /\ FiniteClampBound(1)
    /\ \/ last.args[2].t = "undefined"
       \/ FiniteClampBound(2) /\ last.args[2].t = last.args[1].t
\* the value of the i-th bound for an axis, as the call read it
BoundOnX(i) == IF last.args[i].t = "object" THEN ArgVec(i).x ELSE last.args[i].n
BoundOnY(i) == IF last.args[i].t = "object" THEN ArgVec(i).y ELSE last.args[i].n
\* a was within the bounds b (and c, when there are two) before the call
WithinBounds(a, b, c) ==
    IF last.args[2].t = "undefined" THEN Le(a, b)
    ELSE Le(MathMin(b, c), a) /\ Le(a, MathMax(b, c))
\* the same call made once more, on the state the first call has left
ClampedAgain == ClampCall(last.op, heap, last.this, last.args[1], last.args[2])

\* C29: clampX, clampY and clampAxes are idempotent: after one call with
\* given finite bounds a further call with the same bounds leaves x and y
\* unchanged, and a component that is within the bounds already is not
\* changed by the first call.
C29_ClampIsIdempotent ==
    ClampedWithFiniteBounds =>
        /\ ClampedAgain.h[last.this] = heap[last.this]
        /\ ClampedAgain.err = last.err
        /\ WithinBounds(last.pre[last.this].x, BoundOnX(1), BoundOnX(2)) =>
                heap[last.this].x = last.pre[last.this].x
        /\ WithinBounds(last.pre[last.this].y, BoundOnY(1), BoundOnY(2)) =>
                heap[last.this].y = last.pre[last.this].y

\* clampAxes(1, 0) on (2, -1) gave (1, 0), and a second call keeps (1, 0)
C29_Witness ==
    /\ ClampedWithFiniteBounds /\ Returned /\ last.op = "clampAxes"
    /\ last.args = <<JSNum(1), JSNum(0)>>
    /\ last.pre[last.this] = Vec(2, 0 - 1)
    /\ heap[last.this] = Vec(1, 0)
    /\ ClampedAgain.h[last.this] = Vec(1, 0)

(***************************************************************************)
(* C30                                                                     *)
(***************************************************************************)
\* the loop has made a call; its receiver's x, and its arguments
InLoop == last.op \in LoopOps \cup {LoopHead(op) : op \in LoopOps}
LoopX == heap[last.this].x
LoopMax == ToNumber(last.args[1])
\* |x| <= max
XWithinLimit == InLoop /\ Le(MathAbs(LoopX), LoopMax)
\* |x| > max and the product x * factor rounds back to x
XStalled == InLoop /\ Gt(MathAbs(LoopX), LoopMax) /\ Times(LoopX, last.args[2]) = LoopX
\* a call that found |x| <= max has left x unchanged
StaysOnceWithin ==
    (last.op \in LoopOps /\ Le(MathAbs(last.pre[last.this].x), LoopMax)) =>
        LoopX = last.pre[last.this].x
\* a call has not made |x| larger
NeverGrows ==
    last.op \in LoopOps => Le(MathAbs(LoopX), MathAbs(last.pre[last.this].x))

\* C30 as claimed: for max > 0 and 0 <= factor < 1, repeated calls of
\* limitX(max, factor), or limit, on a finite receiver reach |x| <= max after
\* finitely many calls, and from then on every further call leaves x
\* unchanged.
C30_LimitIsReached == <>XWithinLimit /\ []StaysOnceWithin

\* C30: for max > 0 and 0 <= factor < 1, repeated calls of limitX(max,
\* factor), or limit, on a finite receiver never make |x| larger, and a call
\* that finds |x| <= max leaves x unchanged; after finitely many calls either
\* |x| <= max, or x * factor rounds back to x and x keeps its value above
\* max.
C30_ReachedOrStalled == []NeverGrows /\ []StaysOnceWithin /\ <>(XWithinLimit \/ XStalled)

\* limitX(1, 1/2) found x = 2 and left x = 1, which is within the limit
C30_Witness ==
    /\ last.op = "limitX" /\ last.args = <<JSNum(1), Fraction(2)>>
    /\ last.pre[last.this].x = 2
    /\ LoopX = 1 /\ XWithinLimit
\* limitX(1, 3/4) found x = 2 and left x = 2: 1.5 rounds to 2
C30_StalledWitness ==
    /\ last.op = "limitX" /\ last.args = <<JSNum(1), Fraction(3)>>
    /\ last.pre[last.this].x = 2
    /\ LoopX = 2 /\ XStalled

====
